---- MODULE Spec2Model ----
(***************************************************************************)
(* AI Image Studio: the App component's session state (src/App.tsx), the   *)
(* image service client (services/geminiService) and the file reader       *)
(* helper (utils/fileUtils).                                               *)
(*                                                                         *)
(* One step of the model is one macrotask of the browser's event loop: a   *)
(* user event with the handler it runs up to the handler's first await, or *)
(* the settling of an outstanding promise together with the continuation   *)
(* (try / catch / finally) that runs in its microtasks.                    *)
(***************************************************************************)
EXTENDS Integers, Sequences, FiniteSets, Bags, TLC

VARIABLES
    mode,                  \* useState<Mode>
    prompt,                \* useState<string>
    editPrompt,            \* useState<string>
    aspectRatio,           \* useState<AspectRatio>
    imageSrc,              \* useState<string | null>: a data URL or Null
    originalImageForEdit,  \* useState<{data, mimeType} | null>
    isLoading,             \* useState<boolean>
    error,                 \* useState<string | null>
    inflight,              \* bag of the asynchronous operations not yet settled
    last                   \* the handler step that produced the current state

vars == <<mode, prompt, editPrompt, aspectRatio, imageSrc,
          originalImageForEdit, isLoading, error, inflight, last>>

session == <<mode, prompt, editPrompt, aspectRatio, imageSrc,
             originalImageForEdit, isLoading, error>>

-----------------------------------------------------------------------------
(* Bounds and input domains *)

\* Most asynchronous operations outstanding at once in the model.
MaxInFlight == 2

\* JavaScript null.
Null == [null |-> TRUE]

Modes == {"generate", "edit"}

\* Values typed into the two textareas ("" is the empty textarea).
Texts == {"", "a"}

\* Values of the aspect-ratio select the model enumerates.
AspectRatios == {"1:1", "16:9"}

\* Non-empty base64 payloads.
Bytes == {"b1", "b2"}

\* MIME types that start with 'image/'.
ImageTypes == {"image/jpeg", "image/png", "image/gif"}

\* Files the user can pick: an image with content, an empty image file, and
\* a file that is not an image.
Files ==
    {[type |-> "image/gif", content |-> "b1"],
     [type |-> "image/gif", content |-> ""],
     [type |-> "text/plain", content |-> "b1"]}

\* Remote answers of ai.models.generateImages: a rejected call ("throw"), an
\* answer without generatedImages, and answers with zero, one or two images.
GenerateResponses ==
    {[throw |-> TRUE]} \cup
    {[sdkHttpResponse |-> "200"]} \cup
    {[generatedImages |-> s] :
        s \in {<<>>, <<[imageBytes |-> ""]>>, <<[imageBytes |-> "b1"]>>,
               <<[imageBytes |-> "b2"]>>,
               <<[imageBytes |-> "b2"], [imageBytes |-> "b1"]>>}}

TextPart == [text |-> "t"]

InlinePart(d) == [inlineData |-> [data |-> d]]

\* Remote answers of ai.models.generateContent.
ContentResponses ==
    {[throw |-> TRUE], [candidates |-> <<>>]} \cup
    {[candidates |-> <<[content |-> [parts |-> ps]]>>] :
        ps \in {<<>>, <<TextPart>>, <<InlinePart("b1")>>,
                <<TextPart, InlinePart("b2")>>,
                <<InlinePart("b2"), InlinePart("b1")>>,
                <<InlinePart("")>>}}

\* How a FileReader read ends: onload or onerror.
ReadOutcomes == {"load", "error"}

-----------------------------------------------------------------------------
(* Messages *)

MsgNoPrompt == "Please enter a prompt to generate an image."

MsgNoEditPrompt == "Please enter an editing instruction."

MsgNoImage == "No image loaded for editing."

MsgNotImage == "Please select an image file."

MsgLoadFailed == "Failed to load image."

MsgGenerateFailed ==
    "Failed to generate image. Please check the prompt or try again later."

MsgEditFailed ==
    "Failed to edit image. Please check your instructions or try again later."

MsgNoImageGenerated ==
    "No image was generated. The response might have been blocked."

MsgNoImageEdited ==
    "No edited image was returned. The response might have been blocked."

MsgReadFailed == "Failed to read base64 string from file."

\* The error slot holds Null or a message.
ErrorOf(m) == [message |-> m]

\* A settled promise.
Resolved(v) == [ok |-> TRUE, value |-> v]

Rejected(m) == [ok |-> FALSE, message |-> m]

-----------------------------------------------------------------------------
(* Pure functions *)

\* `data:${mimeType};base64,${base64}`
DataUrl(mimeType, base64) ==
    [scheme |-> "data", mediaType |-> mimeType, encoding |-> "base64",
     payload |-> base64]

ImageOf(base64, mimeType) == [data |-> base64, mimeType |-> mimeType]

\* The body of generateImage's try block, given the remote answer.
generateImageTry(response) ==
    IF "throw" \in DOMAIN response
    THEN Rejected("transport")
    ELSE IF /\ "generatedImages" \in DOMAIN response
            /\ Len(response.generatedImages) > 0
            /\ response.generatedImages[1].imageBytes # ""
         THEN Resolved(response.generatedImages[1].imageBytes)
         ELSE Rejected(MsgNoImageGenerated)

\* generateImage: anything thrown in the try block is logged and replaced.
generateImage(response) ==
    LET r == generateImageTry(response)
    IN  IF r.ok THEN r ELSE Rejected(MsgGenerateFailed)

\* The for loop of editImage over the response's parts, from index i.
RECURSIVE firstInlineData(_, _)
firstInlineData(parts, i) ==
    IF i > Len(parts)
    THEN Rejected(MsgNoImageEdited)
    ELSE IF "inlineData" \in DOMAIN parts[i]
         THEN Resolved(parts[i].inlineData.data)
         ELSE firstInlineData(parts, i + 1)

\* The body of editImage's try block, given the remote answer.
editImageTry(response) ==
    IF "throw" \in DOMAIN response
    THEN Rejected("transport")
    ELSE IF Len(response.candidates) = 0
         THEN Rejected("TypeError")
         ELSE firstInlineData(response.candidates[1].content.parts, 1)

editImage(response) ==
    LET r == editImageTry(response)
    IN  IF r.ok THEN r ELSE Rejected(MsgEditFailed)

\* FileReader.readAsDataURL: the result as the pieces around its comma.
readAsDataURL(file) ==
    <<"data:" , file.type, ";base64", ",", file.content>>

\* result.split(',')[1] for the result above: what follows the comma.
splitComma1(result) ==
    LET i == CHOOSE k \in 1..Len(result) : result[k] = ","
    IN  IF i + 1 > Len(result) THEN "" ELSE result[i + 1]

\* fileToBase64, given how the read ends.
fileToBase64(file, outcome) ==
    IF outcome = "error"
    THEN Rejected("ProgressEvent")
    ELSE LET base64 == splitComma1(readAsDataURL(file))
         IN  IF base64 # ""
             THEN Resolved([base64 |-> base64, mimeType |-> file.type])
             ELSE Rejected(MsgReadFailed)

\* Variant of startsWithImage: any file with a type passes.
startsWithImage_AnyType(type) == type # ""

\* file.type.startsWith('image/')
startsWithImage(type) == type \in ImageTypes

-----------------------------------------------------------------------------
(* Outstanding operations *)

GenerateCall(p, r) == [kind |-> "generateImage", prompt |-> p, aspectRatio |-> r]

EditCall(p, d, m) ==
    [kind |-> "editImage", prompt |-> p, imageDataBase64 |-> d, mimeType |-> m]

ReadCall(f) == [kind |-> "fileToBase64", file |-> f]

Pending == BagToSet(inflight)

Issue(op) == inflight (+) SetToBag({op})

Settle(op) == inflight (-) SetToBag({op})

\* The model stops issuing operations at MaxInFlight outstanding ones.
CanIssue == BagCardinality(inflight) < MaxInFlight

Step(handler, phase, ok, result) ==
    [handler |-> handler, phase |-> phase, ok |-> ok, result |-> result]

-----------------------------------------------------------------------------
Init ==
    /\ mode = "generate"
    /\ prompt = ""
    /\ editPrompt = ""
    /\ aspectRatio = "1:1"
    /\ imageSrc = Null
    /\ originalImageForEdit = Null
    /\ isLoading = FALSE
    /\ error = Null
    /\ inflight = EmptyBag
    /\ last = Step("mount", "invoke", TRUE, "")

-----------------------------------------------------------------------------
(* Handlers of App, each up to its first await *)

\* Variant of handleGenerateInvalid: the slots are cleared before the prompt
\* is looked at.
handleGenerateInvalid_ClearsFirst ==
    /\ error' = ErrorOf(MsgNoPrompt)
    /\ imageSrc' = Null
    /\ originalImageForEdit' = Null
    /\ last' = Step("handleGenerate", "invoke", FALSE, "")
    /\ UNCHANGED <<mode, prompt, editPrompt, aspectRatio, isLoading, inflight>>

\* handleGenerate, lines 25-28: the prompt is empty.
handleGenerateInvalid ==
    /\ error' = ErrorOf(MsgNoPrompt)
    /\ last' = Step("handleGenerate", "invoke", FALSE, "")
    /\ UNCHANGED <<mode, prompt, editPrompt, aspectRatio, imageSrc,
                   originalImageForEdit, isLoading, inflight>>

\* Variant of handleGenerateStart: setOriginalImageForEdit(null) is left out.
handleGenerateStart_KeepsSource ==
    /\ error' = Null
    /\ isLoading' = TRUE
    /\ imageSrc' = Null
    /\ inflight' = Issue(GenerateCall(prompt, aspectRatio))
    /\ last' = Step("handleGenerate", "invoke", TRUE, "")
    /\ UNCHANGED <<mode, prompt, editPrompt, aspectRatio, originalImageForEdit>>

\* handleGenerate, lines 29-35: clears the slots and calls generateImage.
handleGenerateStart ==
    /\ error' = Null
    /\ isLoading' = TRUE
    /\ imageSrc' = Null
    /\ originalImageForEdit' = Null
    /\ inflight' = Issue(GenerateCall(prompt, aspectRatio))
    /\ last' = Step("handleGenerate", "invoke", TRUE, "")
    /\ UNCHANGED <<mode, prompt, editPrompt, aspectRatio>>

handleGenerate ==
    IF prompt = ""
    THEN handleGenerateInvalid
    ELSE CanIssue /\ handleGenerateStart

\* Variant of handleEditInvalid: the loading flag is raised before the checks
\* and the early return leaves it up.
handleEditInvalid_SetsLoading(message) ==
    /\ error' = ErrorOf(message)
    /\ isLoading' = TRUE
    /\ last' = Step("handleEdit", "invoke", FALSE, "")
    /\ UNCHANGED <<mode, prompt, editPrompt, aspectRatio, imageSrc,
                   originalImageForEdit, inflight>>

\* handleEdit, lines 48-55: no instruction, or no image to edit.
handleEditInvalid(message) ==
    /\ error' = ErrorOf(message)
    /\ last' = Step("handleEdit", "invoke", FALSE, "")
    /\ UNCHANGED <<mode, prompt, editPrompt, aspectRatio, imageSrc,
                   originalImageForEdit, isLoading, inflight>>

\* handleEdit, lines 56-60: calls editImage with the held image.
handleEditStart ==
    /\ error' = Null
    /\ isLoading' = TRUE
    /\ inflight' = Issue(EditCall(editPrompt, originalImageForEdit.data,
                                  originalImageForEdit.mimeType))
    /\ last' = Step("handleEdit", "invoke", TRUE, "")
    /\ UNCHANGED <<mode, prompt, editPrompt, aspectRatio, imageSrc,
                   originalImageForEdit>>

handleEdit ==
    IF editPrompt = ""
    THEN handleEditInvalid(MsgNoEditPrompt)
    ELSE IF originalImageForEdit = Null
         THEN handleEditInvalid(MsgNoImage)
         ELSE CanIssue /\ handleEditStart

\* handleFileChange, line 75: no file was chosen.
handleFileChangeNoFile ==
    /\ last' = Step("handleFileChange", "invoke", TRUE, "")
    /\ UNCHANGED <<session, inflight>>

\* handleFileChange, lines 76-79: the file is not an image.
handleFileChangeInvalid(file) ==
    /\ error' = ErrorOf(MsgNotImage)
    /\ last' = Step("handleFileChange", "invoke", FALSE, file.type)
    /\ UNCHANGED <<mode, prompt, editPrompt, aspectRatio, imageSrc,
                   originalImageForEdit, isLoading, inflight>>

\* handleFileChange, lines 80-83: starts reading the file.
handleFileChangeStart(file) ==
    /\ error' = Null
    /\ isLoading' = TRUE
    /\ inflight' = Issue(ReadCall(file))
    /\ last' = Step("handleFileChange", "invoke", TRUE, file.type)
    /\ UNCHANGED <<mode, prompt, editPrompt, aspectRatio, imageSrc,
                   originalImageForEdit>>

handleFileChange(file) ==
    IF file = Null
    THEN handleFileChangeNoFile
    ELSE IF ~startsWithImage(file.type)
         THEN handleFileChangeInvalid(file)
         ELSE CanIssue /\ handleFileChangeStart(file)

\* Variant of switchToEditMode: it clears the error as the tabs do.
switchToEditMode_ClearsError ==
    /\ mode' = IF imageSrc # Null THEN "edit" ELSE mode
    /\ error' = Null
    /\ last' = Step("switchToEditMode", "invoke", TRUE, "")
    /\ UNCHANGED <<prompt, editPrompt, aspectRatio, imageSrc,
                   originalImageForEdit, isLoading, inflight>>

switchToEditMode ==
    /\ mode' = IF imageSrc # Null THEN "edit" ELSE mode
    /\ last' = Step("switchToEditMode", "invoke", TRUE, "")
    /\ UNCHANGED <<prompt, editPrompt, aspectRatio, imageSrc,
                   originalImageForEdit, isLoading, error, inflight>>

\* Variant of handleModeChange: the error is not cleared.
handleModeChange_KeepsError(newMode) ==
    /\ mode' = newMode
    /\ last' = Step("handleModeChange", "invoke", TRUE, newMode)
    /\ UNCHANGED <<prompt, editPrompt, aspectRatio, imageSrc,
                   originalImageForEdit, isLoading, error, inflight>>

handleModeChange(newMode) ==
    /\ mode' = newMode
    /\ error' = Null
    /\ last' = Step("handleModeChange", "invoke", TRUE, newMode)
    /\ UNCHANGED <<prompt, editPrompt, aspectRatio, imageSrc,
                   originalImageForEdit, isLoading, inflight>>

clearError ==
    /\ error' = Null
    /\ last' = Step("clearError", "invoke", TRUE, "")
    /\ UNCHANGED <<mode, prompt, editPrompt, aspectRatio, imageSrc,
                   originalImageForEdit, isLoading, inflight>>

setPrompt(value) ==
    /\ prompt' = value
    /\ last' = Step("setState", "invoke", TRUE, "")
    /\ UNCHANGED <<mode, editPrompt, aspectRatio, imageSrc,
                   originalImageForEdit, isLoading, error, inflight>>

setEditPrompt(value) ==
    /\ editPrompt' = value
    /\ last' = Step("setState", "invoke", TRUE, "")
    /\ UNCHANGED <<mode, prompt, aspectRatio, imageSrc,
                   originalImageForEdit, isLoading, error, inflight>>

setAspectRatio(value) ==
    /\ aspectRatio' = value
    /\ last' = Step("setState", "invoke", TRUE, "")
    /\ UNCHANGED <<mode, prompt, editPrompt, imageSrc,
                   originalImageForEdit, isLoading, error, inflight>>

-----------------------------------------------------------------------------
(* Continuations: the awaited promise settles and try/catch/finally runs *)

\* Variant of handleGenerateSettled: no finally block, the flag is cleared
\* on success only.
handleGenerateSettled_NoFinally(op, response) ==
    LET r == generateImage(response)
    IN  /\ op \in Pending
        /\ op.kind = "generateImage"
        /\ inflight' = Settle(op)
        /\ IF r.ok
           THEN /\ imageSrc' = DataUrl("image/jpeg", r.value)
                /\ originalImageForEdit' = ImageOf(r.value, "image/jpeg")
                /\ error' = error
                /\ isLoading' = FALSE
           ELSE /\ error' = ErrorOf(r.message)
                /\ UNCHANGED <<imageSrc, originalImageForEdit, isLoading>>
        /\ last' = Step("handleGenerate", "settle", r.ok,
                        IF r.ok THEN r.value ELSE "")
        /\ UNCHANGED <<mode, prompt, editPrompt, aspectRatio>>

\* Variant of handleGenerateSettled: the edit source is tagged image/png.
handleGenerateSettled_Png(op, response) ==
    LET r == generateImage(response)
    IN  /\ op \in Pending
        /\ op.kind = "generateImage"
        /\ inflight' = Settle(op)
        /\ IF r.ok
           THEN /\ imageSrc' = DataUrl("image/jpeg", r.value)
                /\ originalImageForEdit' = ImageOf(r.value, "image/png")
                /\ error' = error
           ELSE /\ error' = ErrorOf(r.message)
                /\ UNCHANGED <<imageSrc, originalImageForEdit>>
        /\ isLoading' = FALSE
        /\ last' = Step("handleGenerate", "settle", r.ok,
                        IF r.ok THEN r.value ELSE "")
        /\ UNCHANGED <<mode, prompt, editPrompt, aspectRatio>>

\* handleGenerate, lines 35-44.
handleGenerateSettled(op, response) ==
    LET r == generateImage(response)
    IN  /\ op \in Pending
        /\ op.kind = "generateImage"
        /\ inflight' = Settle(op)
        /\ IF r.ok
           THEN /\ imageSrc' = DataUrl("image/jpeg", r.value)
                /\ originalImageForEdit' = ImageOf(r.value, "image/jpeg")
                /\ error' = error
           ELSE /\ error' = ErrorOf(r.message)
                /\ UNCHANGED <<imageSrc, originalImageForEdit>>
        /\ isLoading' = FALSE
        /\ last' = Step("handleGenerate", "settle", r.ok,
                        IF r.ok THEN r.value ELSE "")
        /\ UNCHANGED <<mode, prompt, editPrompt, aspectRatio>>

\* Variant of handleEditSettled: the edit source is not updated, so edits do
\* not chain.
handleEditSettled_KeepsSource(op, response) ==
    LET r == editImage(response)
    IN  /\ op \in Pending
        /\ op.kind = "editImage"
        /\ inflight' = Settle(op)
        /\ IF r.ok
           THEN /\ imageSrc' = DataUrl("image/png", r.value)
                /\ error' = error
           ELSE /\ error' = ErrorOf(r.message)
                /\ UNCHANGED imageSrc
        /\ UNCHANGED originalImageForEdit
        /\ isLoading' = FALSE
        /\ last' = Step("handleEdit", "settle", r.ok,
                        IF r.ok THEN r.value ELSE "")
        /\ UNCHANGED <<mode, prompt, editPrompt, aspectRatio>>

\* handleEdit, lines 60-70.
handleEditSettled(op, response) ==
    LET r == editImage(response)
    IN  /\ op \in Pending
        /\ op.kind = "editImage"
        /\ inflight' = Settle(op)
        /\ IF r.ok
           THEN /\ imageSrc' = DataUrl("image/png", r.value)
                /\ originalImageForEdit' = ImageOf(r.value, "image/png")
                /\ error' = error
           ELSE /\ error' = ErrorOf(r.message)
                /\ UNCHANGED <<imageSrc, originalImageForEdit>>
        /\ isLoading' = FALSE
        /\ last' = Step("handleEdit", "settle", r.ok,
                        IF r.ok THEN r.value ELSE "")
        /\ UNCHANGED <<mode, prompt, editPrompt, aspectRatio>>

\* Variant of handleFileChangeSettled: setMode('edit') is left out.
handleFileChangeSettled_KeepsMode(op, outcome) ==
    LET r == fileToBase64(op.file, outcome)
    IN  /\ op \in Pending
        /\ op.kind = "fileToBase64"
        /\ inflight' = Settle(op)
        /\ IF r.ok
           THEN /\ imageSrc' = DataUrl(r.value.mimeType, r.value.base64)
                /\ originalImageForEdit' =
                       ImageOf(r.value.base64, r.value.mimeType)
                /\ error' = error
           ELSE /\ error' = ErrorOf(MsgLoadFailed)
                /\ UNCHANGED <<imageSrc, originalImageForEdit>>
        /\ isLoading' = FALSE
        /\ last' = Step("handleFileChange", "settle", r.ok,
                        IF r.ok THEN r.value.base64 ELSE "")
        /\ UNCHANGED <<mode, prompt, editPrompt, aspectRatio>>

\* handleFileChange, lines 83-92.
handleFileChangeSettled(op, outcome) ==
    LET r == fileToBase64(op.file, outcome)
    IN  /\ op \in Pending
        /\ op.kind = "fileToBase64"
        /\ inflight' = Settle(op)
        /\ IF r.ok
           THEN /\ imageSrc' = DataUrl(r.value.mimeType, r.value.base64)
                /\ originalImageForEdit' =
                       ImageOf(r.value.base64, r.value.mimeType)
                /\ mode' = "edit"
                /\ error' = error
           ELSE /\ error' = ErrorOf(MsgLoadFailed)
                /\ UNCHANGED <<imageSrc, originalImageForEdit, mode>>
        /\ isLoading' = FALSE
        /\ last' = Step("handleFileChange", "settle", r.ok,
                        IF r.ok THEN r.value.base64 ELSE "")
        /\ UNCHANGED <<prompt, editPrompt, aspectRatio>>

\* Some outstanding operation settles.
Settled ==
    \E op \in Pending :
        \/ \E response \in GenerateResponses : handleGenerateSettled(op, response)
        \/ \E response \in ContentResponses : handleEditSettled(op, response)
        \/ \E outcome \in ReadOutcomes : handleFileChangeSettled(op, outcome)

-----------------------------------------------------------------------------
(* The rendered controls: which handler a user event can reach *)

\* Generate Image button: generate tab, disabled={isLoading}.
ClickGenerate == mode = "generate" /\ ~isLoading /\ handleGenerate

\* Apply Edit button: edit tab, an image is held, disabled={isLoading || ...}.
ClickApplyEdit ==
    mode = "edit" /\ originalImageForEdit # Null /\ ~isLoading /\ handleEdit

\* The file input of the edit tab.
ChooseFile == mode = "edit" /\ \E file \in Files \cup {Null} : handleFileChange(file)

\* Edit this Image button: rendered when imageSrc && !isLoading.
ClickEditThisImage == imageSrc # Null /\ ~isLoading /\ switchToEditMode

\* The two tabs.
ClickTab == \E newMode \in Modes : handleModeChange(newMode)

\* The close button of the error banner.
ClickDismiss == error # Null /\ clearError

\* The prompt textarea of the generate tab.
TypePrompt ==
    mode = "generate" /\ \E value \in Texts \ {prompt} : setPrompt(value)

\* The instruction textarea of the edit tab.
TypeEditPrompt ==
    /\ mode = "edit"
    /\ originalImageForEdit # Null
    /\ \E value \in Texts \ {editPrompt} : setEditPrompt(value)

\* The aspect-ratio select of the generate tab.
SelectAspectRatio ==
    mode = "generate" /\ \E value \in AspectRatios \ {aspectRatio} : setAspectRatio(value)

Next ==
    \/ ClickGenerate
    \/ ClickApplyEdit
    \/ ChooseFile
    \/ ClickEditThisImage
    \/ ClickTab
    \/ ClickDismiss
    \/ TypePrompt
    \/ TypeEditPrompt
    \/ SelectAspectRatio
    \/ Settled

Spec == Init /\ [][Next]_vars

\* Every outstanding call or read settles at some point.
FairSpec == Spec /\ WF_vars(Settled)

\* The rendered application, and handleEdit also called as a function in
\* states where its button is not rendered.
NextDirect == Next \/ handleEdit

SpecDirect == Init /\ [][NextDirect]_vars

TypeOK ==
    /\ mode \in Modes
    /\ prompt \in Texts
    /\ editPrompt \in Texts
    /\ aspectRatio \in AspectRatios
    /\ isLoading \in BOOLEAN
    /\ BagCardinality(inflight) <= MaxInFlight

-----------------------------------------------------------------------------
(* Vocabulary of the claims *)

Operations == {"handleGenerate", "handleEdit", "handleFileChange"}

\* The step being taken is an invocation of handler h.
Invokes(h) == last'.handler = h /\ last'.phase = "invoke"

\* The step being taken is the settling of an operation of handler h.
Settles(h) == last'.handler = h /\ last'.phase = "settle"

\* The step being taken issues the asynchronous operation op.
Issues(op) == inflight' = inflight (+) SetToBag({op})

\* The operation that the step being taken settles.
SettledOp ==
    CHOOSE op \in Pending : inflight' = inflight (-) SetToBag({op})

\* The outstanding remote calls: generateImage and editImage, not file reads.
RemoteCalls ==
    LET remote == {op \in Pending : op.kind \in {"generateImage", "editImage"}}
    IN  BagCardinality([op \in remote |-> inflight[op]])

-----------------------------------------------------------------------------
\* C1: in every reachable state at most one remote call (generateImage or
\* editImage) is outstanding.
C1_AtMostOneRemoteCall == RemoteCalls <= 1

\* C2: in every reachable state isLoading is true exactly when some started
\* Generate, Edit or Upload has not yet resolved.
C2_LoadingIffUnresolved == isLoading <=> (inflight # EmptyBag)

\* C3: a Generate, Edit or Upload starts (issues its call or read) only in a
\* state where isLoading is false.
C3_StartsOnlyWhenIdle ==
    [][ (/\ last'.handler \in Operations
         /\ last'.phase = "invoke"
         /\ inflight' # inflight)
        => ~isLoading ]_vars

\* C4: provided every call and read settles, from every state a state where
\* isLoading is false is reached: whenever an action has set isLoading to
\* true, it is false again later, after success and after failure.
C4_LoadingEventuallyCleared == []<>(~isLoading)

\* C4 witness: a failed operation has settled and the flag is down.
C4_Witness ==
    /\ last.phase = "settle"
    /\ ~last.ok
    /\ ~isLoading
    /\ inflight = EmptyBag

\* C5: Generate invoked with an empty prompt sets the validation error, issues
\* no call, and leaves isLoading, the image, the edit source and mode alone.
C5_EmptyPromptRejected ==
    [][ (Invokes("handleGenerate") /\ prompt = "")
        => /\ error' = ErrorOf(MsgNoPrompt)
           /\ inflight' = inflight
           /\ UNCHANGED <<isLoading, imageSrc, originalImageForEdit, mode>> ]_vars

\* C5 witness: Generate was rejected for its empty prompt while an image was
\* displayed, and the image is still there.
C5_Witness ==
    /\ last = Step("handleGenerate", "invoke", FALSE, "")
    /\ prompt = ""
    /\ error = ErrorOf(MsgNoPrompt)
    /\ imageSrc # Null
    /\ originalImageForEdit # Null

\* C6: Edit invoked with an empty instruction, or with no edit source, sets a
\* validation error, issues no call, and leaves isLoading, the image, the edit
\* source and mode alone.
C6_InvalidEditRejected ==
    [][ (Invokes("handleEdit") /\ (editPrompt = "" \/ originalImageForEdit = Null))
        => /\ error' \in {ErrorOf(MsgNoEditPrompt), ErrorOf(MsgNoImage)}
           /\ inflight' = inflight
           /\ UNCHANGED <<isLoading, imageSrc, originalImageForEdit, mode>> ]_vars

\* C6 witness: Edit was rejected because no edit source is loaded, although
\* an instruction was given.
C6_Witness ==
    /\ last = Step("handleEdit", "invoke", FALSE, "")
    /\ editPrompt # ""
    /\ originalImageForEdit = Null
    /\ error = ErrorOf(MsgNoImage)

\* C7: Generate calls generateImage with the prompt and aspect ratio of the
\* state it is invoked in; when the call succeeds the returned bytes become
\* the displayed image and the edit source, both as image/jpeg.
C7_GenerateCallAndResult ==
    [][ /\ (Invokes("handleGenerate") /\ prompt # "")
           => Issues(GenerateCall(prompt, aspectRatio))
        /\ (Settles("handleGenerate") /\ last'.ok)
           => /\ imageSrc' = DataUrl("image/jpeg", last'.result)
              /\ originalImageForEdit' = ImageOf(last'.result, "image/jpeg")
              /\ last'.result \in Bytes ]_vars

\* C7 witness: a generateImage call was answered with the bytes b2, which are
\* now the displayed image and the edit source, as a JPEG.
C7_Witness ==
    /\ last = Step("handleGenerate", "settle", TRUE, "b2")
    /\ imageSrc = DataUrl("image/jpeg", "b2")
    /\ originalImageForEdit = ImageOf("b2", "image/jpeg")

\* C8: Edit calls editImage with the instruction and the edit source of the
\* state it is invoked in; when the call succeeds the returned bytes replace
\* the displayed image and the edit source as image/png, and an Edit invoked
\* next passes those bytes with image/png.
C8_EditCallAndResult ==
    [][ /\ (Invokes("handleEdit") /\ editPrompt # "" /\ originalImageForEdit # Null)
           => Issues(EditCall(editPrompt, originalImageForEdit.data,
                              originalImageForEdit.mimeType))
        /\ (Settles("handleEdit") /\ last'.ok)
           => /\ imageSrc' = DataUrl("image/png", last'.result)
              /\ originalImageForEdit' = ImageOf(last'.result, "image/png")
        /\ (/\ last.handler = "handleEdit" /\ last.phase = "settle" /\ last.ok
            /\ Invokes("handleEdit") /\ last'.ok)
           => Issues(EditCall(editPrompt, last.result, "image/png")) ]_vars

\* C8 witness: an Edit is outstanding whose input is the PNG that the edit
\* before it returned and that is now displayed.
C8_Witness ==
    /\ last = Step("handleEdit", "invoke", TRUE, "")
    /\ \E op \in Pending :
          /\ op.kind = "editImage"
          /\ op.mimeType = "image/png"
          /\ op.imageDataBase64 \in Bytes
          /\ imageSrc = DataUrl("image/png", op.imageDataBase64)

\* C9: when an Edit fails, the displayed image and the edit source are those
\* of the state the Edit was invoked in (the source it passed to editImage);
\* when a Generate fails, the displayed image is empty.  (The Upload clause of
\* the claim is not part of this formula.)
C9_FailureRestoresInvocationState ==
    [][ /\ (Settles("handleEdit") /\ ~last'.ok)
           => /\ originalImageForEdit' =
                    ImageOf(SettledOp.imageDataBase64, SettledOp.mimeType)
              /\ imageSrc' =
                    DataUrl(SettledOp.mimeType, SettledOp.imageDataBase64)
        /\ (Settles("handleGenerate") /\ ~last'.ok)
           => imageSrc' = Null ]_vars

\* C10: every step that ends in an error (a rejected invocation, a failed
\* generate, edit or file read) leaves isLoading false and the error slot
\* populated.
C10_ErrorsClearLoading ==
    [][ (last'.handler \in Operations /\ ~last'.ok)
        => (isLoading' = FALSE /\ error' # Null) ]_vars

\* C11: an Upload of a file whose type is not an image type sets the error,
\* starts no file read, and leaves mode, the image, the edit source and
\* isLoading alone.
C11_NonImageUploadRejected ==
    [][ (/\ Invokes("handleFileChange")
         /\ last'.result # ""
         /\ last'.result \notin ImageTypes)
        => /\ error' = ErrorOf(MsgNotImage)
           /\ inflight' = inflight
           /\ UNCHANGED <<mode, imageSrc, originalImageForEdit, isLoading>> ]_vars

\* C11 witness: a text/plain file was chosen while an image was displayed;
\* the error is set and the image is still there.
C11_Witness ==
    /\ last = Step("handleFileChange", "invoke", FALSE, "text/plain")
    /\ error = ErrorOf(MsgNotImage)
    /\ imageSrc # Null
    /\ originalImageForEdit # Null
    /\ inflight = EmptyBag

\* C12: a Generate whose call fails (no images, an image without bytes, or a
\* rejected call) ends with the one generic message in the error slot,
\* isLoading false and no image displayed.
C12_GenerateFailureIsGeneric ==
    [][ (Settles("handleGenerate") /\ ~last'.ok)
        => /\ error' = ErrorOf(MsgGenerateFailed)
           /\ isLoading' = FALSE
           /\ imageSrc' = Null ]_vars

\* C13: when an Upload succeeds, the file's bytes with the file's own type
\* become the displayed image and the edit source, mode becomes edit and
\* isLoading is cleared.
C13_UploadSuccess ==
    [][ (Settles("handleFileChange") /\ last'.ok)
        => /\ SettledOp.file.content \in Bytes
           /\ imageSrc' =
                 DataUrl(SettledOp.file.type, SettledOp.file.content)
           /\ originalImageForEdit' =
                 ImageOf(SettledOp.file.content, SettledOp.file.type)
           /\ mode' = "edit"
           /\ isLoading' = FALSE ]_vars

\* C13 witness: the read of a GIF has succeeded and the file is displayed
\* and held as the edit source, in edit mode.
C13_Witness ==
    /\ last = Step("handleFileChange", "settle", TRUE, "b1")
    /\ imageSrc = DataUrl("image/gif", "b1")
    /\ originalImageForEdit = ImageOf("b1", "image/gif")
    /\ mode = "edit"
    /\ ~isLoading

\* C14: a click on a tab sets mode to the chosen value and clears the error,
\* and leaves the image, the edit source, both prompts, the aspect ratio,
\* isLoading and the outstanding operations alone.
C14_ModeSwitchFrame ==
    [][ Invokes("handleModeChange")
        => /\ mode' = last'.result
           /\ mode' \in Modes
           /\ error' = Null
           /\ inflight' = inflight
           /\ UNCHANGED <<imageSrc, originalImageForEdit, prompt, editPrompt,
                          aspectRatio, isLoading>> ]_vars

\* C14 witness: the generate tab was clicked while an Edit of the displayed
\* image was outstanding.
C14_Witness ==
    /\ last = Step("handleModeChange", "invoke", TRUE, "generate")
    /\ mode = "generate"
    /\ isLoading
    /\ imageSrc # Null
    /\ \E op \in Pending : op.kind = "editImage"
    /\ error = Null

\* C15: Switch-to-edit is taken only where an image is displayed; it sets
\* mode to edit and leaves everything else alone, the error slot included.
C15_SwitchToEditFrame ==
    [][ Invokes("switchToEditMode")
        => /\ imageSrc # Null
           /\ mode' = "edit"
           /\ inflight' = inflight
           /\ UNCHANGED <<imageSrc, originalImageForEdit, prompt, editPrompt,
                          aspectRatio, isLoading, error>> ]_vars

\* C15 witness: Edit this Image was clicked with an image displayed and an
\* error shown; both are still there.
C15_Witness ==
    /\ last = Step("switchToEditMode", "invoke", TRUE, "")
    /\ mode = "edit"
    /\ imageSrc # Null
    /\ error # Null

\* The indices of the parts that carry inline image bytes.
PartsWithImageBytes(parts) ==
    {i \in 1..Len(parts) :
        "inlineData" \in DOMAIN parts[i] /\ parts[i].inlineData.data # ""}

\* What C16 says editImage returns for a response made of these parts.
ClaimedEditResult(parts) ==
    IF PartsWithImageBytes(parts) = {}
    THEN Rejected(MsgEditFailed)
    ELSE LET first == CHOOSE i \in PartsWithImageBytes(parts) :
                         \A j \in PartsWithImageBytes(parts) : i <= j
         IN  Resolved(parts[first].inlineData.data)

\* C16: while an editImage call is outstanding, whatever sequence of parts
\* the remote answers with, editImage returns the bytes of the first part
\* that carries inline image bytes, and signals EditFailed when no part does;
\* it never resolves without image bytes.
C16_EditImageReturnsFirstImage ==
    (\E op \in Pending : op.kind = "editImage")
    => \A response \in ContentResponses :
          ("candidates" \in DOMAIN response /\ Len(response.candidates) > 0)
          => /\ editImage(response) =
                   ClaimedEditResult(response.candidates[1].content.parts)
             /\ editImage(response).ok => editImage(response).value \in Bytes

\* C17: the displayed image and the edit source agree in every state: both
\* empty, or the image is the data URL of the edit source's bytes and type.
C17_ImageMatchesEditSource ==
    IF originalImageForEdit = Null
    THEN imageSrc = Null
    ELSE imageSrc = DataUrl(originalImageForEdit.mimeType,
                            originalImageForEdit.data)

\* C17 witness: an edited image is displayed and held while another
\* operation is outstanding.
C17_Witness ==
    /\ imageSrc = DataUrl("image/png", "b2")
    /\ originalImageForEdit = ImageOf("b2", "image/png")
    /\ inflight # EmptyBag

\* C18: a successful Edit replaces the very image that it passed to
\* editImage: the edit source at completion is the source of the call.
C18_EditReplacesItsSource ==
    [][ (Settles("handleEdit") /\ last'.ok)
        => originalImageForEdit =
              ImageOf(SettledOp.imageDataBase64, SettledOp.mimeType) ]_vars

\* C19: in the state right after a Generate, Edit or Upload resolves
\* successfully, the error slot is empty.
C19_SuccessLeavesNoError ==
    [][ (/\ last'.handler \in Operations
         /\ last'.phase = "settle"
         /\ last'.ok)
        => error' = Null ]_vars

====
